---- MODULE Spec2Model ----
(***************************************************************************)
(* DEVO: Data Enrichment and Validation Operator.                          *)
(*                                                                         *)
(* A model of enrichment.py (CSV -> iCSV: type inference, nodata and       *)
(* delimiter resolution, METADATA / FIELDS / DATA serialisation) and of    *)
(* validation.py (iCSV header parsing, the metadata gate, the temporary    *)
(* CSV handed to the external validator, the two reports).                 *)
(*                                                                         *)
(* Text is modelled as a sequence of symbols.  A symbol is one character   *)
(* ("1", "|", " ") or an atom standing for a fixed word of the file format *)
(* that the code only ever compares as a whole ("[METADATA]", "fields").   *)
(***************************************************************************)
EXTENDS Integers, Sequences, FiniteSets, TLC

VARIABLES
    pc,        \* control point of the running entry point
    infile,    \* the path argument (a sequence of path components)
    opts,      \* keyword arguments: user_delimiter, nodata_override
    env,       \* build / environment: date_parse present, csv.Sniffer answers
    fs,        \* the file system: path -> file content
    mk,        \* locals of make_icsv_from_csv
    va,        \* locals of validate_icsv
    ret,       \* what the entry point returned or raised
    col,       \* the argument of a function run on its own (a column, a header)
    inferred   \* its result

vars == <<pc, infile, opts, env, fs, mk, va, ret, col, inferred>>

----------------------------------------------------------------------------
(* Bounds of the model.                                                    *)

MaxInferLen == 3      \* cells per column handed to infer_column_type
MaxRows == 2          \* data rows of an input CSV
MaxRowLen == 2        \* cells per row of an input CSV
MaxEntries == 3       \* entries of a list handed to check_metadata
MaxHeaderLen == 3     \* names of a header handed to detect_geometry_hint
MaxTail == 2          \* lines of a long input CSV after its fifth line

----------------------------------------------------------------------------
(* Text primitives (Python str methods).                                   *)

None == <<"None">>    \* Python's None, distinct from every text value

Digits == {"0", "1", "2", "3", "4", "5", "6", "7", "8", "9"}

DigitSeq == <<"0", "1", "2", "3", "4", "5", "6", "7", "8", "9">>

DigitVal(c) == (CHOOSE i \in 1..10 : DigitSeq[i] = c) - 1

Whitespace == {" ", "\t"}

RECURSIVE LStrip(_)
LStrip(s) ==
    IF s # <<>> /\ s[1] \in Whitespace THEN LStrip(Tail(s)) ELSE s

RECURSIVE RStrip(_)
RStrip(s) ==
    IF s # <<>> /\ s[Len(s)] \in Whitespace
    THEN RStrip(SubSeq(s, 1, Len(s) - 1))
    ELSE s

\* str.strip()
Strip(s) == RStrip(LStrip(s))

\* str.lstrip("#")
RECURSIVE LStripHash(_)
LStripHash(s) ==
    IF s # <<>> /\ s[1] = "#" THEN LStripHash(Tail(s)) ELSE s

\* s.startswith(p)
StartsWith(s, p) == Len(s) >= Len(p) /\ SubSeq(s, 1, Len(p)) = p

\* index of the first occurrence of the non-empty text d in s, 0 if none
FindFirst(s, d) ==
    LET hits == {i \in 1..(Len(s) - Len(d) + 1) : SubSeq(s, i, i + Len(d) - 1) = d}
    IN  IF hits = {} THEN 0 ELSE CHOOSE i \in hits : \A j \in hits : i <= j

\* "d in s"
Contains(s, d) == FindFirst(s, d) # 0

\* s.split(d) for a non-empty separator d (an empty one raises ValueError,
\* which the callers model)
RECURSIVE Split(_, _)
Split(s, d) ==
    LET k == FindFirst(s, d)
    IN  IF k = 0
        THEN <<s>>
        ELSE <<SubSeq(s, 1, k - 1)>> \o Split(SubSeq(s, k + Len(d), Len(s)), d)

\* d.join(parts)
RECURSIVE Join(_, _)
Join(parts, d) ==
    IF parts = <<>> THEN <<>>
    ELSE IF Len(parts) = 1 THEN parts[1]
    ELSE parts[1] \o d \o Join(Tail(parts), d)

\* [f(x) for x in xs]
MapStrip(xs) == [i \in 1..Len(xs) |-> Strip(xs[i])]

\* the elements of a sequence
Range(xs) == {xs[i] : i \in 1..Len(xs)}

\* [x for x in xs if keep(x)], keep given as a set
RECURSIVE FilterIn(_, _)
FilterIn(xs, S) ==
    IF xs = <<>> THEN <<>>
    ELSE IF xs[1] \in S THEN <<xs[1]>> \o FilterIn(Tail(xs), S)
    ELSE FilterIn(Tail(xs), S)

----------------------------------------------------------------------------
(* enrichment.py: constants and type inference.                            *)

ENRICHMENT_COMMON_MISSING ==
    { <<>>,
      <<"N", "A">>, <<"N", "/", "A">>, <<"n", "a">>, <<"n", "/", "a">>,
      <<"N", "U", "L", "L">>, <<"n", "u", "l", "l">>,
      <<"n", "a", "n">>, <<"N", "a", "N">>,
      <<"-", "9", "9", "9">>,
      <<"-", "9", "9", "9", ".", "0">>,
      <<"-", "9", "9", "9", ".", "0", "0", "0", "0", "0", "0">> }

AllDigits(s) == s # <<>> /\ \A i \in 1..Len(s) : s[i] \in Digits

Unsigned(s) == IF s # <<>> /\ s[1] = "-" THEN Tail(s) ELSE s

\* INT_RE = ^-?\d+$
INT_RE(s) == AllDigits(Unsigned(s))

\* FLOAT_RE = ^-?\d+\.\d+$
FLOAT_RE(s) ==
    LET b == Unsigned(s)
    IN  \E k \in 2..(Len(b) - 1) :
            /\ b[k] = "."
            /\ AllDigits(SubSeq(b, 1, k - 1))
            /\ AllDigits(SubSeq(b, k + 1, Len(b)))

\* the number a digit string denotes
RECURSIVE NatOf(_)
NatOf(s) == IF s = <<>> THEN 0 ELSE 10 * NatOf(SubSeq(s, 1, Len(s) - 1)) + DigitVal(s[Len(s)])

\* s has the shape given: a digit wherever shape holds "d", and shape's own
\* symbol everywhere else
Shaped(s, shape) ==
    /\ Len(s) = Len(shape)
    /\ \A i \in 1..Len(s) : IF shape[i] = "d" THEN s[i] \in Digits ELSE s[i] = shape[i]

ValidYMD(y, m, d) == NatOf(y) >= 1 /\ NatOf(m) \in 1..12 /\ NatOf(d) \in 1..28

\* YYYY-MM-DD (days 29..31 depend on the month and are left out of the
\* model's vocabulary)
IsDashDate(s) ==
    /\ Shaped(s, <<"d", "d", "d", "d", "-", "d", "d", "-", "d", "d">>)
    /\ ValidYMD(SubSeq(s, 1, 4), SubSeq(s, 6, 7), SubSeq(s, 9, 10))

\* YYYYMMDD
IsBasicDate(s) ==
    /\ Shaped(s, <<"d", "d", "d", "d", "d", "d", "d", "d">>)
    /\ ValidYMD(SubSeq(s, 1, 4), SubSeq(s, 5, 6), SubSeq(s, 7, 8))

\* dateutil.parser.parse(s) succeeds: ISO dates, YYYYMMDD, and a bare day of
\* the month
DateutilParses(s) ==
    \/ IsDashDate(s)
    \/ IsBasicDate(s)
    \/ (AllDigits(s) /\ Len(s) <= 2 /\ NatOf(s) \in 1..28)

\* datetime.fromisoformat(s) succeeds; the basic form YYYYMMDD is accepted
\* from Python 3.11 on (setup.py asks for >= 3.8)
FromIsoFormatParses(s, py311) == IsDashDate(s) \/ (py311 /\ IsBasicDate(s))

\* one of the strptime formats of fmts matches; of the eleven formats only
\* %Y-%m-%d can match a text of the model's vocabulary
StrptimeParses(s) == IsDashDate(s)

HasDigit(s) == \E i \in 1..Len(s) : s[i] \in Digits

try_parse_datetime(s0, e) ==
    IF s0 = <<>> THEN FALSE
    ELSE LET s == Strip(s0)
         IN  IF ~HasDigit(s) THEN FALSE
             ELSE IF e.date_parse /\ DateutilParses(s) THEN TRUE
             ELSE IF FromIsoFormatParses(s, e.py311) THEN TRUE
             ELSE StrptimeParses(s)

\* pruned = [v.strip() for v in values if v.strip() not in missing_values]
RECURSIVE Pruned(_, _)
Pruned(values, missing_values) ==
    IF values = <<>> THEN <<>>
    ELSE IF Strip(values[1]) \in missing_values
         THEN Pruned(Tail(values), missing_values)
         ELSE <<Strip(values[1])>> \o Pruned(Tail(values), missing_values)

\* (a variant that tries the datetime hypothesis first)
InferDatetimeFirst(values, missing_values, e) ==
    LET pruned == Pruned(values, missing_values)
        is_int == \A i \in 1..Len(pruned) : INT_RE(pruned[i])
        is_float == \A i \in 1..Len(pruned) : INT_RE(pruned[i]) \/ FLOAT_RE(pruned[i])
        is_datetime == \A i \in 1..Len(pruned) : try_parse_datetime(pruned[i], e)
    IN  IF pruned = <<>> THEN "string"
        ELSE IF is_datetime THEN "datetime"
        ELSE IF is_int THEN "integer"
        ELSE IF is_float THEN "number"
        ELSE "string"

\* (a variant without the early return for a column with no value left)
InferNoEmptyCheck(values, missing_values, e) ==
    LET pruned == Pruned(values, missing_values)
        is_int == \A i \in 1..Len(pruned) : INT_RE(pruned[i])
        is_float == \A i \in 1..Len(pruned) : INT_RE(pruned[i]) \/ FLOAT_RE(pruned[i])
        is_datetime == \A i \in 1..Len(pruned) : try_parse_datetime(pruned[i], e)
    IN  IF is_int THEN "integer"
        ELSE IF is_float THEN "number"
        ELSE IF is_datetime THEN "datetime"
        ELSE "string"

infer_column_type(values, missing_values, e) ==
    LET pruned == Pruned(values, missing_values)
        is_int == \A i \in 1..Len(pruned) : INT_RE(pruned[i])
        is_float == \A i \in 1..Len(pruned) : INT_RE(pruned[i]) \/ FLOAT_RE(pruned[i])
        is_datetime == \A i \in 1..Len(pruned) : try_parse_datetime(pruned[i], e)
    IN  IF pruned = <<>> THEN "string"
        ELSE IF is_int THEN "integer"
        ELSE IF is_float THEN "number"
        ELSE IF is_datetime THEN "datetime"
        ELSE "string"

----------------------------------------------------------------------------
(* The csv module: csv.reader and csv.writer with the default dialect      *)
(* (quotechar '"', doublequote, QUOTE_MINIMAL) and a one-character         *)
(* delimiter d.                                                            *)

Quote == "\""

\* csv.reader's state machine over one line
RECURSIVE CsvScan(_, _, _, _, _)
CsvScan(s, d, mode, cur, out) ==
    IF s = <<>> THEN out \o <<cur>>
    ELSE LET c == s[1]
             r == Tail(s)
         IN  CASE mode = "start" ->
                    IF c = Quote THEN CsvScan(r, d, "quoted", cur, out)
                    ELSE IF c = d THEN CsvScan(r, d, "start", <<>>, out \o <<cur>>)
                    ELSE CsvScan(r, d, "field", cur \o <<c>>, out)
               [] mode = "field" ->
                    IF c = d THEN CsvScan(r, d, "start", <<>>, out \o <<cur>>)
                    ELSE CsvScan(r, d, "field", cur \o <<c>>, out)
               [] mode = "quoted" ->
                    IF c = Quote THEN CsvScan(r, d, "quote_in_quoted", cur, out)
                    ELSE CsvScan(r, d, "quoted", cur \o <<c>>, out)
               [] OTHER ->
                    IF c = Quote THEN CsvScan(r, d, "quoted", cur \o <<Quote>>, out)
                    ELSE IF c = d THEN CsvScan(r, d, "start", <<>>, out \o <<cur>>)
                    ELSE CsvScan(r, d, "field", cur \o <<c>>, out)

\* one row of csv.reader(lines, delimiter=d); a blank line is a row of no cells
CsvReadRow(line, d) == IF line = <<>> THEN <<>> ELSE CsvScan(line, d, "start", <<>>, <<>>)

RECURSIVE DoubleQuotes(_)
DoubleQuotes(s) ==
    IF s = <<>> THEN <<>>
    ELSE IF s[1] = Quote THEN <<Quote, Quote>> \o DoubleQuotes(Tail(s))
    ELSE <<s[1]>> \o DoubleQuotes(Tail(s))

CsvWriteField(f, d) ==
    IF \E i \in 1..Len(f) : f[i] \in {d, Quote}
    THEN <<Quote>> \o DoubleQuotes(f) \o <<Quote>>
    ELSE f

\* csv.writer(fh, delimiter=d).writerow(cells), without the line terminator;
\* a row of one empty cell is written as ""
CsvWriteRow(cells, d) ==
    IF cells = << <<>> >> THEN <<Quote, Quote>>
    ELSE Join([i \in 1..Len(cells) |-> CsvWriteField(cells[i], d)], <<d>>)

----------------------------------------------------------------------------
(* Numbers: int(), float() and str() of them.                              *)

RECURSIVE StrOfNat(_)
StrOfNat(n) ==
    IF n < 10 THEN <<DigitSeq[n + 1]>>
    ELSE StrOfNat(n \div 10) \o <<DigitSeq[(n % 10) + 1]>>

\* int(s) for s matching INT_RE
IntOf(s) == IF s[1] = "-" THEN 0 - NatOf(Tail(s)) ELSE NatOf(s)

\* str(n) for an int n
StrOfInt(n) == IF n < 0 THEN <<"-">> \o StrOfNat(0 - n) ELSE StrOfNat(n)

RECURSIVE Pow10(_)
Pow10(k) == IF k = 0 THEN 1 ELSE 10 * Pow10(k - 1)

\* float(s) for s matching INT_RE or FLOAT_RE: sign, integer part and the
\* digits after the point
FloatOf(s) ==
    LET b == Unsigned(s)
        k == FindFirst(b, <<".">>)
    IN  [neg  |-> s[1] = "-",
         ip   |-> IF k = 0 THEN NatOf(b) ELSE NatOf(SubSeq(b, 1, k - 1)),
         frac |-> IF k = 0 THEN <<>> ELSE SubSeq(b, k + 1, Len(b))]

\* the float scaled by 10^K, K at least the number of its fraction digits
FloatKey(f, K) ==
    LET m == f.ip * Pow10(K) + NatOf(f.frac) * Pow10(K - Len(f.frac))
    IN  IF f.neg THEN 0 - m ELSE m

RECURSIVE StripZeros(_)
StripZeros(s) ==
    IF s # <<>> /\ s[Len(s)] = "0" THEN StripZeros(SubSeq(s, 1, Len(s) - 1)) ELSE s

\* str(x) for a float x (the shortest repr: "10.0", "0.5")
StrOfFloat(f) ==
    LET fr == StripZeros(f.frac)
    IN  (IF f.neg THEN <<"-">> ELSE <<>>) \o StrOfNat(f.ip) \o <<".">>
        \o (IF fr = <<>> THEN <<"0">> ELSE fr)

\* index of the first least (greatest) key: min() and max() keep the first
\* of equal elements
ArgMin(keys) ==
    CHOOSE i \in 1..Len(keys) :
        /\ \A j \in 1..Len(keys) : keys[i] <= keys[j]
        /\ \A j \in 1..(i - 1) : keys[j] # keys[i]

ArgMax(keys) ==
    CHOOSE i \in 1..Len(keys) :
        /\ \A j \in 1..Len(keys) : keys[i] >= keys[j]
        /\ \A j \in 1..(i - 1) : keys[j] # keys[i]

RECURSIVE MaxOf(_)
MaxOf(S) ==
    IF S = {} THEN 0
    ELSE LET x == CHOOSE y \in S : TRUE
             m == MaxOf(S \ {x})
         IN  IF x > m THEN x ELSE m

\* compute_numeric_minmax: the texts str(min), str(max), or None, None
compute_numeric_minmax(pruned, as_type) ==
    IF pruned = <<>> THEN <<None, None>>
    ELSE IF as_type = "integer"
    THEN LET nums == [i \in 1..Len(pruned) |-> IntOf(pruned[i])]
         IN  <<StrOfInt(nums[ArgMin(nums)]), StrOfInt(nums[ArgMax(nums)])>>
    ELSE LET fl == [i \in 1..Len(pruned) |-> FloatOf(pruned[i])]
             K == MaxOf({Len(fl[i].frac) : i \in 1..Len(fl)})
             keys == [i \in 1..Len(fl) |-> FloatKey(fl[i], K)]
         IN  <<StrOfFloat(fl[ArgMin(keys)]), StrOfFloat(fl[ArgMax(keys)])>>

----------------------------------------------------------------------------
(* enrichment.py: datetime min/max, geometry hint, delimiter detection.    *)

\* zero-padded decimal of width w
Pad(n, w) ==
    LET t == StrOfNat(n)
    IN  [i \in 1..(w - Len(t)) |-> "0"] \o t

\* the date a parsed text denotes, as year * 10000 + month * 100 + day; a bare
\* day number is read by dateutil as that day of the current month
DateKey(v, e) ==
    IF IsDashDate(v)
    THEN NatOf(SubSeq(v, 1, 4)) * 10000 + NatOf(SubSeq(v, 6, 7)) * 100 + NatOf(SubSeq(v, 9, 10))
    ELSE IF IsBasicDate(v) THEN NatOf(v)
    ELSE e.today[1] * 10000 + e.today[2] * 100 + NatOf(v)

\* datetime.isoformat() of a date at midnight
IsoFormat(key) ==
    Pad(key \div 10000, 4) \o <<"-">> \o Pad((key \div 100) % 100, 2) \o <<"-">>
    \o Pad(key % 100, 2) \o <<"T", "0", "0", ":", "0", "0", ":", "0", "0">>

\* the pruned values compute_datetime_minmax manages to parse
RECURSIVE ParsedDates(_, _)
ParsedDates(pruned, e) ==
    IF pruned = <<>> THEN <<>>
    ELSE LET v == pruned[1]
             ok == IF e.date_parse THEN DateutilParses(v)
                   ELSE FromIsoFormatParses(v, e.py311) \/ StrptimeParses(v)
         IN  (IF ok THEN <<DateKey(v, e)>> ELSE <<>>) \o ParsedDates(Tail(pruned), e)

compute_datetime_minmax(pruned, e) ==
    LET parsed == ParsedDates(pruned, e)
    IN  IF parsed = <<>> THEN <<None, None>>
        ELSE <<IsoFormat(parsed[ArgMin(parsed)]), IsoFormat(parsed[ArgMax(parsed)])>>

UpperSeq == <<"A", "B", "C", "D", "E", "F", "G", "H", "I", "J", "K", "L", "M",
              "N", "O", "P", "Q", "R", "S", "T", "U", "V", "W", "X", "Y", "Z">>

LowerSeq == <<"a", "b", "c", "d", "e", "f", "g", "h", "i", "j", "k", "l", "m",
              "n", "o", "p", "q", "r", "s", "t", "u", "v", "w", "x", "y", "z">>

\* str.lower()
Lower(s) ==
    [i \in 1..Len(s) |->
        IF \E k \in 1..26 : UpperSeq[k] = s[i]
        THEN LowerSeq[CHOOSE k \in 1..26 : UpperSeq[k] = s[i]]
        ELSE s[i]]

GeometryName == <<"g", "e", "o", "m", "e", "t", "r", "y">>

LatNames == { <<"l", "a", "t">>, <<"l", "a", "t", "i", "t", "u", "d", "e">> }

LonNames == { <<"l", "o", "n">>, <<"l", "n", "g">>,
              <<"l", "o", "n", "g", "i", "t", "u", "d", "e">> }

ColumnPrefix == <<"c", "o", "l", "u", "m", "n", ":">>

Epsg4326 == <<"E", "P", "S", "G", ":", "4", "3", "2", "6">>

\* the greatest index of xs whose lower-cased element is in S, 0 if none
LastIn(xs, S) == MaxOf({i \in 1..Len(xs) : Lower(xs[i]) \in S})

\* the least index of xs whose lower-cased element is in S, 0 if none
FirstIn(xs, S) ==
    IF \E i \in 1..Len(xs) : Lower(xs[i]) \in S
    THEN CHOOSE i \in 1..Len(xs) : Lower(xs[i]) \in S /\ \A j \in 1..(i - 1) : Lower(xs[j]) \notin S
    ELSE 0

\* (a variant that keeps the first lat and lon columns met)
FirstLatLonHint(header) ==
    LET geo == {i \in 1..Len(header) : Lower(header[i]) = GeometryName}
        lat_idx == FirstIn(header, LatNames)
        lon_idx == FirstIn(header, LonNames)
    IN  IF geo # {}
        THEN <<ColumnPrefix \o header[CHOOSE i \in geo : \A j \in geo : i <= j], None>>
        ELSE IF lat_idx # 0 /\ lon_idx # 0
        THEN <<ColumnPrefix \o header[lat_idx] \o <<",">> \o header[lon_idx], Epsg4326>>
        ELSE <<None, None>>

\* detect_geometry_hint: <<geometry hint, srid hint>>
detect_geometry_hint(header) ==
    LET geo == {i \in 1..Len(header) : Lower(header[i]) = GeometryName}
        lat_idx == LastIn(header, LatNames)
        lon_idx == LastIn(header, LonNames)
    IN  IF geo # {}
        THEN <<ColumnPrefix \o header[CHOOSE i \in geo : \A j \in geo : i <= j], None>>
        ELSE IF lat_idx # 0 /\ lon_idx # 0
        THEN <<ColumnPrefix \o header[lat_idx] \o <<",">> \o header[lon_idx], Epsg4326>>
        ELSE <<None, None>>

\* the candidates handed to csv.Sniffer
SnifferDelimiters == {",", "|", ";", ":", "\t", "/"}

\* islice(fh, n) joined
Sample(lines, n) == SubSeq(lines, 1, IF Len(lines) < n THEN Len(lines) ELSE n)

\* what detect_delimiter may answer for a sample: a candidate that occurs in
\* it when the Sniffer succeeds, the comma when it raises
SnifferAnswers(sample) ==
    {<<",">>} \cup
    {<<d>> : d \in {c \in SnifferDelimiters :
                       \E i \in 1..Len(sample) : \E j \in 1..Len(sample[i]) : sample[i][j] = c}}

\* detect_delimiter on the first n lines; the Sniffer is a function of its
\* sample, and env holds its answer for each of the two samples taken
detect_delimiter(lines, n, e) == IF n = 10 THEN e.sniff10 ELSE e.sniff5

----------------------------------------------------------------------------
(* enrichment.py: make_icsv_from_csv and the builders it calls.            *)

\* [x for x in xs if x not in S]
RECURSIVE FilterNotIn(_, _)
FilterNotIn(xs, S) ==
    IF xs = <<>> THEN <<>>
    ELSE IF xs[1] \in S THEN FilterNotIn(Tail(xs), S)
    ELSE <<xs[1]>> \o FilterNotIn(Tail(xs), S)

\* all cells of all rows, row by row
RECURSIVE Flatten(_)
Flatten(rows) == IF rows = <<>> THEN <<>> ELSE rows[1] \o Flatten(Tail(rows))

\* number of occurrences of x in xs
Count(xs, x) == Cardinality({i \in 1..Len(xs) : xs[i] = x})

\* load_rows_with_frictionless: header, rows and the delimiter used to read
load_rows_with_frictionless(lines, delimiter, e) ==
    LET detected == IF delimiter = None THEN detect_delimiter(lines, 10, e) ELSE delimiter
        all == [i \in 1..Len(lines) |-> CsvReadRow(lines[i], detected[1])]
    IN  [header   |-> IF all = <<>> THEN <<>> ELSE MapStrip(all[1]),
         rows     |-> IF all = <<>> THEN <<>> ELSE Tail(all),
         detected |-> detected]

\* (a variant that keeps the last inserted of equal counts)
LastTieNodata(rows, nodata_override) ==
    IF nodata_override # None THEN nodata_override
    ELSE LET lits == FilterIn(Flatten(rows), ENRICHMENT_COMMON_MISSING)
             counts == [i \in 1..Len(lits) |-> Count(lits, lits[i])]
         IN  IF lits = <<>> THEN <<>>
             ELSE lits[CHOOSE i \in 1..Len(lits) :
                           /\ \A j \in 1..Len(lits) : counts[i] >= counts[j]
                           /\ \A j \in (i + 1)..Len(lits) : counts[j] < counts[i]]

\* nodata detection: the override, else the literal of the missing-value set
\* with the greatest count; max() over the dict keeps the first inserted of
\* equal counts
resolve_nodata(rows, nodata_override) ==
    IF nodata_override # None THEN nodata_override
    ELSE LET lits == FilterIn(Flatten(rows), ENRICHMENT_COMMON_MISSING)
             counts == [i \in 1..Len(lits) |-> Count(lits, lits[i])]
         IN  IF lits = <<>> THEN <<>> ELSE lits[ArgMax(counts)]

NormalizeRow(r, n) ==
    IF Len(r) < n THEN r \o [i \in 1..(n - Len(r)) |-> <<>>] ELSE SubSeq(r, 1, n)

\* the loop body of make_icsv_from_csv for one column
column_info(name, cells, e) ==
    LET col_values == MapStrip(cells)
        pruned == FilterNotIn(col_values, ENRICHMENT_COMMON_MISSING \cup {<<>>})
        t == infer_column_type(col_values, ENRICHMENT_COMMON_MISSING, e)
        mm == IF t \in {"integer", "number"} THEN compute_numeric_minmax(pruned, t)
              ELSE IF t = "datetime" THEN compute_datetime_minmax(pruned, e)
              ELSE <<None, None>>
        required == Len(pruned) = Len(col_values) /\ Len(col_values) > 0
    IN  [name          |-> name,
         type          |-> t,
         min           |-> mm[1],
         max           |-> mm[2],
         constraints   |-> (IF mm[1] # None THEN {<<"minimum", mm[1]>>} ELSE {})
                           \cup (IF mm[2] # None THEN {<<"maximum", mm[2]>>} ELSE {})
                           \cup (IF required THEN {<<"required", <<"true">>>>} ELSE {}),
         missing_count |-> Cardinality({i \in 1..Len(col_values) :
                               col_values[i] \in ENRICHMENT_COMMON_MISSING \cup {<<>>}}),
         description   |-> <<>>]

build_frictionless_schema(col_infos, missing_values) ==
    [fields        |-> [i \in 1..Len(col_infos) |->
                           [name        |-> col_infos[i].name,
                            type        |-> col_infos[i].type,
                            constraints |-> col_infos[i].constraints]],
     missingValues |-> missing_values]

\* the text of "key = value"
KV(key, value) == <<key, " ", "=", " ">> \o value

Truthy(v) == v # None /\ v # <<>>

build_icsv_metadata_section(field_delimiter, header, rows_count, nodata_value, geometry_hint, srid_hint, application_profile) ==
    << KV("iCSV_version", <<"1", ".", "0">>) >>
    \o (IF Truthy(application_profile)
        THEN << KV("application_profile", application_profile) >> ELSE <<>>)
    \o << KV("field_delimiter", field_delimiter),
          KV("rows", StrOfNat(rows_count)),
          KV("columns", StrOfNat(Len(header))),
          KV("creation_date", <<"utcnow", "Z">>) >>
    \o (IF nodata_value # None THEN << KV("nodata", nodata_value) >> ELSE <<>>)
    \o (IF Truthy(geometry_hint) THEN << KV("geometry", geometry_hint) >> ELSE <<>>)
    \o (IF Truthy(srid_hint) THEN << KV("srid", srid_hint) >> ELSE <<>>)
    \o << KV("generator", <<"DEVO", " ", "devo.enrichment">>) >>

\* _join: "" for None, str(v) otherwise
TextOrEmpty(v) == IF v = None THEN <<>> ELSE v

build_fields_section(header, col_infos, field_delimiter) ==
    LET n == Len(col_infos)
    IN  << KV("fields", Join(header, field_delimiter)),
           KV("types", Join([i \in 1..n |-> <<col_infos[i].type>>], field_delimiter)),
           KV("min", Join([i \in 1..n |-> TextOrEmpty(col_infos[i].min)], field_delimiter)),
           KV("max", Join([i \in 1..n |-> TextOrEmpty(col_infos[i].max)], field_delimiter)),
           KV("missing_count",
              Join([i \in 1..n |-> StrOfNat(col_infos[i].missing_count)], field_delimiter)),
           KV("description", Join([i \in 1..n |-> col_infos[i].description], field_delimiter)) >>

Commented(lines) == [i \in 1..Len(lines) |-> <<"#", " ">> \o lines[i]]

\* the lines write_icsv writes
write_icsv(header_meta_lines, fields_meta_lines, data_header, rows, field_delimiter) ==
    << <<"#", " ", "iCSV 1.0 UTF-8">>, <<"#", " ", "[METADATA]">> >>
    \o Commented(header_meta_lines)
    \o << <<>>, <<"#", " ", "[FIELDS]">> >>
    \o Commented(fields_meta_lines)
    \o << <<>>, <<"#", " ", "[DATA]">> >>
    \o << CsvWriteRow(data_header, field_delimiter[1]) >>
    \o [i \in 1..Len(rows) |->
           CsvWriteRow(IF Len(rows[i]) < Len(data_header)
                       THEN NormalizeRow(rows[i], Len(data_header))
                       ELSE rows[i],
                       field_delimiter[1])]

\* (a variant that keeps the comma)
KeepComma(detected_delim) == detected_delim

\* the iCSV delimiter: '|' when the input delimiter is the comma

icsv_delimiter(detected_delim) ==
    IF detected_delim # <<",">> THEN detected_delim ELSE <<"|">>

\* make_icsv_from_csv on the lines of infile: its locals at return
make_icsv_from_csv(lines, o, e) ==
    LET loaded == load_rows_with_frictionless(lines, o.user_delimiter, e)
        header == loaded.header
        detected_delim == IF o.user_delimiter = None
                          THEN detect_delimiter(lines, 5, e)
                          ELSE o.user_delimiter
        icsv_delim == icsv_delimiter(detected_delim)
        nodata_value == resolve_nodata(loaded.rows, o.nodata_override)
        rows == [i \in 1..Len(loaded.rows) |-> NormalizeRow(loaded.rows[i], Len(header))]
        col_infos == [i \in 1..Len(header) |->
                         column_info(header[i], [r \in 1..Len(rows) |-> rows[r][i]], e)]
        schema == build_frictionless_schema(col_infos, ENRICHMENT_COMMON_MISSING)
        geo == detect_geometry_hint(header)
        metadata_lines == build_icsv_metadata_section(icsv_delim, header, Len(loaded.rows),
                              nodata_value, geo[1], geo[2], o.application_profile)
        fields_lines == build_fields_section(header, col_infos, icsv_delim)
    IN  [header         |-> header,
         raw_rows       |-> loaded.rows,
         rows           |-> rows,
         row_count      |-> Len(loaded.rows),
         read_delim     |-> loaded.detected,
         detected_delim |-> detected_delim,
         icsv_delim     |-> icsv_delim,
         nodata_value   |-> nodata_value,
         col_infos      |-> col_infos,
         schema         |-> schema,
         metadata_lines |-> metadata_lines,
         fields_lines   |-> fields_lines,
         icsv           |-> write_icsv(metadata_lines, fields_lines, header, rows, icsv_delim)]

----------------------------------------------------------------------------
(* validation.py: parse_icsv_metadata and check_metadata.                  *)

\* dicts, as sequences of <<key, value>> in insertion order
DictHas(d, k) == \E i \in 1..Len(d) : d[i][1] = k

DictGet(d, k, default) ==
    IF DictHas(d, k) THEN d[CHOOSE i \in 1..Len(d) : d[i][1] = k][2] ELSE default

DictSet(d, k, v) ==
    IF DictHas(d, k)
    THEN [i \in 1..Len(d) |-> IF d[i][1] = k THEN <<k, v>> ELSE d[i]]
    ELSE Append(d, <<k, v>>)

MetadataMarker == <<"#", " ", "[METADATA]">>

FieldsMarker == <<"#", " ", "[FIELDS]">>

DataMarker == <<"#", " ", "[DATA]">>

FieldDelimiterKey == <<"field_delimiter">>

FieldsKey == <<"fields">>

\* the scan of the header lines, up to the DATA marker
RECURSIVE ScanHeader(_, _, _, _)
ScanHeader(lines, section, metadata, fields_meta) ==
    IF lines = <<>> THEN [metadata |-> metadata, fields_meta |-> fields_meta]
    ELSE LET line == lines[1]
             rest == Tail(lines)
             content == Strip(LStripHash(line))
             k == FindFirst(content, <<"=">>)
             key == Strip(SubSeq(content, 1, k - 1))
             value == Strip(SubSeq(content, k + 1, Len(content)))
         IN  IF Strip(line) = MetadataMarker
             THEN ScanHeader(rest, "metadata", metadata, fields_meta)
             ELSE IF Strip(line) = FieldsMarker
             THEN ScanHeader(rest, "fields", metadata, fields_meta)
             ELSE IF Strip(line) = DataMarker
             THEN [metadata |-> metadata, fields_meta |-> fields_meta]
             ELSE IF StartsWith(line, <<"#">>) /\ section # "none" /\ k # 0
             THEN IF section = "metadata"
                  THEN ScanHeader(rest, section, DictSet(metadata, key, value), fields_meta)
                  ELSE ScanHeader(rest, section, metadata,
                                  DictSet(fields_meta, key, MapStrip(Split(value, <<"|">>))))
             ELSE ScanHeader(rest, section, metadata, fields_meta)

\* (a variant that leaves the lists as split on '|')
NoResplit(lines) ==
    LET scanned == ScanHeader(lines, "none", <<>>, <<>>)
    IN  [raised |-> FALSE, metadata |-> scanned.metadata, fields_meta |-> scanned.fields_meta]

\* parse_icsv_metadata: the two dicts, or the ValueError that str.split
\* raises for an empty separator
parse_icsv_metadata(lines) ==
    LET scanned == ScanHeader(lines, "none", <<>>, <<>>)
        metadata == scanned.metadata
        fm == scanned.fields_meta
        delim == DictGet(metadata, FieldDelimiterKey, None)
    IN  IF ~DictHas(metadata, FieldDelimiterKey)
        THEN [raised |-> FALSE, metadata |-> metadata, fields_meta |-> fm]
        ELSE IF delim = <<>> /\ fm # <<>>
        THEN [raised |-> TRUE, metadata |-> metadata, fields_meta |-> fm]
        ELSE [raised      |-> FALSE,
              metadata    |-> metadata,
              fields_meta |-> [i \in 1..Len(fm) |->
                                  <<fm[i][1], MapStrip(Split(Join(fm[i][2], <<"|">>), delim))>>]]

MissingDelimiterError == <<"Missing required metadata: field_delimiter">>

MissingFieldsError == <<"Missing [FIELDS] 'fields' list">>

InconsistentCountError(key, num, found) ==
    <<"Inconsistent count in '">> \o key \o <<"': expected ">> \o StrOfNat(num)
    \o <<", found ">> \o StrOfNat(found)

\* (a variant of the loop that does not exempt empty lists)
RECURSIVE CountEveryList(_, _)
CountEveryList(fm, num) ==
    IF fm = <<>> THEN <<>>
    ELSE (IF fm[1][1] # FieldsKey /\ Len(fm[1][2]) # num
          THEN << InconsistentCountError(fm[1][1], num, Len(fm[1][2])) >>
          ELSE <<>>)
         \o CountEveryList(Tail(fm), num)

\* the errors of the loop over fields_meta.items()
RECURSIVE CountErrors(_, _)
CountErrors(fm, num) ==
    IF fm = <<>> THEN <<>>
    ELSE (IF fm[1][1] # FieldsKey /\ fm[1][2] # <<>> /\ Len(fm[1][2]) # num
          THEN << InconsistentCountError(fm[1][1], num, Len(fm[1][2])) >>
          ELSE <<>>)
         \o CountErrors(Tail(fm), num)

check_metadata(metadata, fields_meta) ==
    (IF ~DictHas(metadata, FieldDelimiterKey) \/ DictGet(metadata, FieldDelimiterKey, <<>>) = <<>>
     THEN << MissingDelimiterError >> ELSE <<>>)
    \o (IF ~DictHas(fields_meta, FieldsKey) THEN << MissingFieldsError >>
        ELSE CountErrors(fields_meta, Len(DictGet(fields_meta, FieldsKey, <<>>))))

----------------------------------------------------------------------------
(* validation.py: the DATA reader, the schema, the external validator and  *)
(* the report.                                                             *)

\* the lines after the DATA marker
RECURSIVE AfterData(_)
AfterData(lines) ==
    IF lines = <<>> THEN <<>>
    ELSE IF Strip(lines[1]) = DataMarker THEN Tail(lines)
    ELSE AfterData(Tail(lines))

\* the DATA lines _read_data_rows keeps: not blank, not commented
RECURSIVE DataLines(_)
DataLines(lines) ==
    IF lines = <<>> THEN <<>>
    ELSE IF Strip(lines[1]) = <<>> \/ StartsWith(Strip(lines[1]), <<"#">>)
    THEN DataLines(Tail(lines))
    ELSE <<lines[1]>> \o DataLines(Tail(lines))

\* _read_data_rows: header and rows; csv.reader raises TypeError for a
\* delimiter that is not one character, when there is a line to read
read_data_rows(lines, delimiter) ==
    LET kept == DataLines(AfterData(lines))
        parts == [i \in 1..Len(kept) |-> CsvReadRow(kept[i], delimiter[1])]
    IN  IF kept # <<>> /\ Len(delimiter) # 1
        THEN [raised |-> TRUE, header |-> <<>>, rows |-> <<>>]
        ELSE [raised |-> FALSE,
              header |-> IF kept = <<>> THEN <<>> ELSE MapStrip(parts[1]),
              rows   |-> IF kept = <<>> THEN <<>> ELSE Tail(parts)]

ValidationMissingValues ==
    { <<>>, <<"N", "A">>, <<"N", "/", "A">>, <<"n", "u", "l", "l">>,
      <<"-", "9", "9", "9">>, <<"-", "9", "9", "9", ".", "0">> }

\* float(v) if "." in v else int(v), and v itself when that raises
ConstraintValue(v) ==
    IF Contains(v, <<".">>)
    THEN IF FLOAT_RE(v) THEN [kind |-> "float", text |-> StrOfFloat(FloatOf(v))]
         ELSE [kind |-> "text", text |-> v]
    ELSE IF INT_RE(v) THEN [kind |-> "int", text |-> StrOfInt(IntOf(v))]
    ELSE [kind |-> "text", text |-> v]

\* lst[i] when i is within the list and the entry is not empty, else <<>>
EntryAt(lst, i) == IF i <= Len(lst) THEN lst[i] ELSE <<>>

build_schema_from_metadata(fields_meta) ==
    LET fields == DictGet(fields_meta, FieldsKey, <<>>)
        types == DictGet(fields_meta, <<"types">>, <<>>)
        min_vals == DictGet(fields_meta, <<"min">>, <<>>)
        max_vals == DictGet(fields_meta, <<"max">>, <<>>)
    IN  [fields |-> [i \in 1..Len(fields) |->
            [name        |-> fields[i],
             type        |-> IF EntryAt(types, i) # <<>> THEN EntryAt(types, i) ELSE <<"string">>,
             constraints |->
                 (IF EntryAt(min_vals, i) # <<>>
                  THEN {<<"minimum", ConstraintValue(EntryAt(min_vals, i))>>} ELSE {})
                 \cup (IF EntryAt(max_vals, i) # <<>>
                       THEN {<<"maximum", ConstraintValue(EntryAt(max_vals, i))>>} ELSE {})]],
         missingValues |-> ValidationMissingValues]

\* the temporary CSV: the header (the FIELDS names when there is none) and
\* the rows, each cut or padded to the header's length
normalized_table(header, data_rows, fields_meta) ==
    [header |-> IF header # <<>> THEN header ELSE DictGet(fields_meta, FieldsKey, <<>>),
     rows   |-> [i \in 1..Len(data_rows) |-> NormalizeRow(data_rows[i], Len(header))]]

\* the external validator's reading of one cell against a field type
CellConforms(cell, type, missing) ==
    \/ cell \in missing
    \/ type = <<"string">>
    \/ type = <<"integer">> /\ INT_RE(cell)
    \/ type = <<"number">> /\ (INT_RE(cell) \/ FLOAT_RE(cell))
    \/ type = <<"datetime">> /\ (IsDashDate(cell) \/ IsBasicDate(cell))

\* the issues the external validator reports for a table under a schema:
\* a label that is not the field's name, a missing or extra label, a cell
\* that is not of the field's type
ValidatorIssues(schema, table) ==
    LET nf == Len(schema.fields)
    IN  {[row |-> 1, col |-> c, code |-> "incorrect-label"] :
             c \in {c \in 1..nf : c <= Len(table.header)
                                  /\ table.header[c] # schema.fields[c].name}}
        \cup {[row |-> 1, col |-> c, code |-> "missing-label"] :
             c \in {c \in 1..nf : c > Len(table.header)}}
        \cup {[row |-> 1, col |-> c, code |-> "extra-label"] :
             c \in {c \in 1..Len(table.header) : c > nf}}
        \cup UNION {
               {[row |-> r + 1, col |-> c, code |-> "type-error"] :
                   c \in {c \in 1..nf :
                            /\ c <= Len(table.rows[r])
                            /\ ~CellConforms(table.rows[r][c], schema.fields[c].type,
                                             schema.missingValues)}} :
               r \in 1..Len(table.rows)}

\* Resource(path=tmp_name, schema=schema).validate(), when it returns
resource_validate(schema, table) ==
    LET issues == ValidatorIssues(schema, table)
    IN  [valid |-> issues = {}, issues |-> issues]

OkSummary == << <<"Data validation [OK]">> >>

\* the issues in the order of the report: by row, then by column
RECURSIVE SortedIssues(_)
SortedIssues(issues) ==
    IF issues = {} THEN <<>>
    ELSE LET first == CHOOSE x \in issues :
                 \A y \in issues : x.row < y.row \/ (x.row = y.row /\ x.col <= y.col)
         IN  <<first>> \o SortedIssues(issues \ {first})

ERROR_SUGGESTIONS == {"type-error", "missing-cell", "blank-row", "extra-cell", "duplicate-label"}

\* _format_report: the lines of the summary
format_report(report) ==
    IF report.valid THEN OkSummary
    ELSE LET si == SortedIssues(report.issues)
         IN  << <<"Data validation errors:">> >>
             \o [i \in 1..(2 * Len(si)) |->
                    LET x == si[(i + 1) \div 2]
                    IN  IF i % 2 = 1
                        THEN <<"  Row ">> \o StrOfNat(x.row) \o <<", Col ">> \o StrOfNat(x.col)
                             \o <<" [", x.code, "]: ", "message">>
                        ELSE <<"    Suggestion: ",
                               IF x.code \in ERROR_SUGGESTIONS THEN x.code ELSE "default">>]

MetadataOkLine == <<"OK: Metadata checks passed.">>

MetadataHintLine == <<"Please fix metadata issues above.">>

AbortNotice == <<"Validation aborted due to metadata errors. See metadata report.">>

ErrorLine(e) == <<"ERROR: ">> \o e

\* the lines written to the metadata report
metadata_report(meta_errors) ==
    IF meta_errors # <<>>
    THEN [i \in 1..Len(meta_errors) |-> ErrorLine(meta_errors[i])] \o << <<>>, MetadataHintLine >>
    ELSE << MetadataOkLine >>

FailedLine(exc) == <<"Validation failed: ", exc>>

----------------------------------------------------------------------------
(* Paths and files.                                                        *)

Stem == "data"

\* the name tempfile.NamedTemporaryFile(suffix=".csv") picks
TmpName == <<"tmp", ".csv">>

Paths ==
    {<<Stem, x>> : x \in {".csv", ".icsv", ".ICSV", "_schema.json",
                          "_metadata_report.txt", "_data_report.txt"}}
    \cup {TmpName}

Absent == [kind |-> "absent", body |-> <<>>]

TextFile(lines) == [kind |-> "text", body |-> lines]

JsonFile(doc) == [kind |-> "json", body |-> <<doc>>]

\* path.replace(".icsv", new)
ReplaceIcsv(path, new) ==
    [i \in 1..Len(path) |-> IF path[i] = ".icsv" THEN new ELSE path[i]]

\* os.path.splitext(path)[0] + new
WithSuffix(path, new) == SubSeq(path, 1, Len(path) - 1) \o <<new>>

\* Path(path).suffix.lower()
SuffixLower(path) ==
    LET x == path[Len(path)]
    IN  IF x = ".ICSV" THEN ".icsv" ELSE IF x = ".CSV" THEN ".csv" ELSE x

----------------------------------------------------------------------------
(* The state machine: cli.main dispatching to make_icsv_from_csv and       *)
(* validate_icsv, and validate_icsv step by step.                          *)

NoReturn == [kind |-> "none", valid |-> FALSE, path |-> None, exc |-> "none"]

Return(valid, path) == [kind |-> "return", valid |-> valid, path |-> path, exc |-> "none"]

Raise(exc) == [kind |-> "raise", valid |-> FALSE, path |-> None, exc |-> exc]

NoMake == [ran |-> FALSE]

NoValidate ==
    [infile           |-> None,
     out_report       |-> None,
     meta_report_path |-> None,
     metadata         |-> <<>>,
     fields_meta      |-> <<>>,
     meta_errors      |-> <<>>,
     delim            |-> None,
     header           |-> <<>>,
     data_rows        |-> <<>>,
     schema           |-> [fields |-> <<>>, missingValues |-> {}],
     report           |-> [valid |-> FALSE, issues |-> {}],
     exc              |-> "none",
     pending          |-> NoReturn,
     tmp_created      |-> FALSE,
     validator_calls  |-> 0,
     validator_raised |-> FALSE]

\* build, then validate (cli.main on a .csv input, and the round-trip test):
\* make_icsv_from_csv writes the iCSV and the schema to its default paths,
\* and validate_icsv goes on with the iCSV; opts holds the keyword arguments
Enrich ==
    /\ pc = "main"
    /\ SuffixLower(infile) = ".csv"
    /\ \E m \in {make_icsv_from_csv(fs[infile].body, opts, env)},
          out_icsv \in {WithSuffix(infile, ".icsv")},
          out_schema \in {WithSuffix(infile, "_schema.json")} :
          /\ mk' = [ran |-> TRUE] @@ m
          /\ fs' = [fs EXCEPT ![out_icsv] = TextFile(m.icsv),
                              ![out_schema] = JsonFile(m.schema)]
          /\ va' = [va EXCEPT !.infile = out_icsv]
    /\ pc' = "validate"
    /\ UNCHANGED <<infile, opts, env, ret, col, inferred>>

\* cli.main, a .icsv input: validation of the file itself
Accept ==
    /\ pc = "main"
    /\ SuffixLower(infile) = ".icsv"
    /\ va' = [va EXCEPT !.infile = infile]
    /\ pc' = "validate"
    /\ UNCHANGED <<infile, opts, env, fs, mk, ret, col, inferred>>

\* validate_icsv up to the metadata report: parse, check, write the report;
\* when str.split raises inside parse_icsv_metadata, va keeps the two dicts
\* as they stood at the raise
ParseAndCheck ==
    /\ pc = "validate"
    /\ \E parsed \in {parse_icsv_metadata(fs[va.infile].body)},
          meta_report_path \in {ReplaceIcsv(va.infile, "_metadata_report.txt")} :
       \E meta_errors \in {check_metadata(parsed.metadata, parsed.fields_meta)} :
           IF parsed.raised
           THEN /\ ret' = Raise("ValueError")
                /\ pc' = "done"
                /\ va' = [va EXCEPT !.out_report = ReplaceIcsv(va.infile, "_data_report.txt"),
                                    !.metadata = parsed.metadata,
                                    !.fields_meta = parsed.fields_meta]
                /\ fs' = fs
           ELSE /\ va' = [va EXCEPT !.out_report = ReplaceIcsv(va.infile, "_data_report.txt"),
                                    !.meta_report_path = meta_report_path,
                                    !.metadata = parsed.metadata,
                                    !.fields_meta = parsed.fields_meta,
                                    !.meta_errors = meta_errors]
                /\ fs' = [fs EXCEPT ![meta_report_path] = TextFile(metadata_report(meta_errors))]
                /\ pc' = "gate"
                /\ ret' = ret
    /\ UNCHANGED <<infile, opts, env, mk, col, inferred>>

\* the metadata gate is shut: the abort notice, and valid = False
GateAbort ==
    /\ pc = "gate"
    /\ va.meta_errors # <<>>
    /\ fs' = [fs EXCEPT ![va.out_report] = TextFile(<< AbortNotice >>)]
    /\ ret' = Return(FALSE, va.out_report)
    /\ pc' = "done"
    /\ UNCHANGED <<infile, opts, env, mk, va, col, inferred>>

\* the gate is passed when check_metadata found nothing
GatePassed(errors) == errors = <<>>

\* the metadata gate is passed: read the DATA section, build the schema
ReadData ==
    /\ pc = "gate"
    /\ GatePassed(va.meta_errors)
    /\ \E delim \in {DictGet(va.metadata, FieldDelimiterKey, <<"|">>)} :
       \E rd \in {read_data_rows(fs[va.infile].body, delim)} :
           IF rd.raised
           THEN /\ ret' = Raise("TypeError")
                /\ pc' = "done"
                /\ va' = [va EXCEPT !.delim = delim]
           ELSE /\ va' = [va EXCEPT !.delim = delim,
                                    !.header = rd.header,
                                    !.data_rows = rd.rows,
                                    !.schema = build_schema_from_metadata(va.fields_meta)]
                /\ pc' = "tmp"
                /\ ret' = ret
    /\ UNCHANGED <<infile, opts, env, fs, mk, col, inferred>>

\* the lines of the temporary CSV
tmp_lines(table, d) ==
    << CsvWriteRow(table.header, d) >>
    \o [i \in 1..Len(table.rows) |-> CsvWriteRow(table.rows[i], d)]

\* the with-block of the NamedTemporaryFile(delete=False): the file exists
\* from its creation on; csv.writer raises TypeError for a delimiter that is
\* not one character, and a write may fail (OSError); both leave the block
\* before the try statement that removes the file
WriteTemp ==
    /\ pc = "tmp"
    /\ \E table \in {normalized_table(va.header, va.data_rows, va.fields_meta)} :
           \/ /\ Len(va.delim) # 1
              /\ fs' = [fs EXCEPT ![TmpName] = TextFile(<<>>)]
              /\ ret' = Raise("TypeError")
              /\ pc' = "done"
           \/ /\ Len(va.delim) = 1
              /\ fs' = [fs EXCEPT ![TmpName] = TextFile(tmp_lines(table, va.delim[1]))]
              /\ ret' = ret
              /\ pc' = "call"
           \/ /\ Len(va.delim) = 1
              /\ fs' = [fs EXCEPT ![TmpName] = TextFile(<<>>)]
              /\ ret' = Raise("OSError")
              /\ pc' = "done"
    /\ va' = [va EXCEPT !.tmp_created = TRUE]
    /\ UNCHANGED <<infile, opts, env, mk, col, inferred>>

\* Resource(...).validate(): the external validator answers or raises
CallValidator ==
    /\ pc = "call"
    /\ \E table \in {normalized_table(va.header, va.data_rows, va.fields_meta)} :
           \/ /\ va' = [va EXCEPT !.report = resource_validate(va.schema, table),
                                  !.validator_calls = @ + 1]
              /\ pc' = "report"
           \/ /\ va' = [va EXCEPT !.exc = "ValidatorError",
                                  !.validator_calls = @ + 1,
                                  !.validator_raised = TRUE]
              /\ pc' = "except"
    /\ UNCHANGED <<infile, opts, env, fs, mk, ret, col, inferred>>

\* the rest of the try block: format the report and write it
WriteReport ==
    /\ pc = "report"
    /\ \/ /\ fs' = [fs EXCEPT ![va.out_report] = TextFile(format_report(va.report))]
          /\ va' = [va EXCEPT !.pending = Return(va.report.valid, va.out_report)]
          /\ pc' = "finally"
       \/ /\ fs' = fs
          /\ va' = [va EXCEPT !.exc = "OSError"]
          /\ pc' = "except"
    /\ UNCHANGED <<infile, opts, env, mk, ret, col, inferred>>

\* (a variant of the handler that lets the error through)
Reraise(exc, path) == Raise(exc)

\* what the except block hands to return once its report is written
handled(exc, path) == Return(FALSE, path)

\* except Exception: write the error into the data report, return False;
\* the write itself may fail
Except ==
    /\ pc = "except"
    /\ \/ /\ fs' = [fs EXCEPT ![va.out_report] = TextFile(<< FailedLine(va.exc) >>)]
          /\ va' = [va EXCEPT !.pending = handled(va.exc, va.out_report)]
       \/ /\ fs' = fs
          /\ va' = [va EXCEPT !.pending = Raise("OSError")]
    /\ pc' = "finally"
    /\ UNCHANGED <<infile, opts, env, mk, ret, col, inferred>>

\* finally: os.remove(tmp_name), then the pending return or raise
Finally ==
    /\ pc = "finally"
    /\ fs' = [fs EXCEPT ![TmpName] = Absent]
    /\ ret' = va.pending
    /\ pc' = "done"
    /\ UNCHANGED <<infile, opts, env, mk, va, col, inferred>>

\* infer_column_type on a column of its own
InferColumn ==
    /\ pc = "infer"
    /\ inferred' = infer_column_type(col, ENRICHMENT_COMMON_MISSING, env)
    /\ pc' = "inferred"
    /\ UNCHANGED <<infile, opts, env, fs, mk, va, ret, col>>

\* check_metadata on two dicts of its own
CheckMetadata ==
    /\ pc = "check"
    /\ va' = [va EXCEPT !.meta_errors = check_metadata(va.metadata, va.fields_meta)]
    /\ pc' = "checked"
    /\ UNCHANGED <<infile, opts, env, fs, mk, ret, col, inferred>>

\* detect_geometry_hint on a header of its own
DetectGeometry ==
    /\ pc = "geometry"
    /\ inferred' = detect_geometry_hint(col)
    /\ pc' = "hinted"
    /\ UNCHANGED <<infile, opts, env, fs, mk, va, ret, col>>

----------------------------------------------------------------------------
(* Inputs.                                                                 *)

\* the sequences over S of length at most n
SeqsUpTo(S, n) == UNION {[1..k -> S] : k \in 0..n}

\* a CSV file as a standard writer with delimiter fd writes it
CsvLines(header, rows, fd) ==
    << CsvWriteRow(header, fd) >> \o [i \in 1..Len(rows) |-> CsvWriteRow(rows[i], fd)]

\* cells of a column handed to infer_column_type
InferCells ==
    { <<>>, <<"N", "A">>, <<"7">>, <<" ", "7", " ">>, <<"-", "3">>, <<"0", ".", "5">>,
      <<"2", "0", "2", "0", "0", "1", "0", "1">>,
      <<"2", "0", "2", "0", "-", "0", "1", "-", "0", "1">>,
      <<"x">> }

\* the current year and month
Today == <<2026, 11>>

\* header names and cells of the CSV inputs of the enrichment runs
EnrichHeaders ==
    { << <<"a">> >>, << <<"a", "|", "b">> >>,
      << <<"a">>, <<"b">> >>, << <<"a", "|", "b">>, <<"c">> >> }

EnrichCells == { <<>>, <<"N", "A">>, <<" ">>, <<"7">> }

\* header names and cells of the CSV inputs of the build-then-validate runs
PipeHeaders == { << <<"t", "a">> >>, << <<"t">>, <<"t", "a">> >> }

PipeCells == { <<"1", "0">>, <<"x">> }

\* a run on a CSV file: the file, the keyword arguments, the Sniffer's answers
CsvInit(headers, cells, fds, user_delimiters, nodata_overrides) ==
    \E header \in headers, rows \in SeqsUpTo(SeqsUpTo(cells, MaxRowLen), MaxRows), fd \in fds :
      \E lines \in {CsvLines(header, rows, fd)} :
          /\ infile = <<Stem, ".csv">>
          /\ fs = [p \in Paths |-> IF p = infile THEN TextFile(lines) ELSE Absent]
          /\ \E ud \in user_delimiters, nd \in nodata_overrides :
                opts = [user_delimiter |-> ud, nodata_override |-> nd,
                        application_profile |-> None]
          /\ \E s10 \in SnifferAnswers(Sample(lines, 10)), s5 \in SnifferAnswers(Sample(lines, 5)) :
                /\ Sample(lines, 10) = Sample(lines, 5) => s10 = s5
                /\ env = [date_parse |-> TRUE, py311 |-> TRUE, sniff10 |-> s10, sniff5 |-> s5,
                          today |-> Today]
          /\ pc = "main"
          /\ mk = NoMake
          /\ va = NoValidate
          /\ ret = NoReturn
          /\ col = <<>>
          /\ inferred = "none"

\* hand-written iCSV headers: the field_delimiter line (None: no such line),
\* the raw values of the fields and types lines, the DATA lines
HandDelimiters == { None, <<>>, <<"|">>, <<";">>, <<"\t">>, <<"|", "|">> }

HandFields == { None, <<"a", "|", "b">>, <<"a", ";", "b">>, <<"a">> }

HandTypes == { None, <<"integer", "|", "string">>, <<"integer", ";", "string">>, <<"integer">> }

HandData ==
    { <<>>,
      << <<"a", "|", "b">>, <<"1", "|", "x">> >>,
      << <<"a", ";", "b">>, <<"1", ";", "x">>, <<"y", ";", "2">> >> }

OptionalLine(key, value) == IF value = None THEN <<>> ELSE << KV(key, value) >>

HandIcsv(delimiter, fields, types, data, meta_first) ==
    LET meta == << MetadataMarker >>
                \o Commented(OptionalLine("field_delimiter", delimiter))
        flds == << FieldsMarker >>
                \o Commented(OptionalLine("fields", fields) \o OptionalLine("types", types))
    IN  << <<"#", " ", "iCSV 1.0 UTF-8">> >>
        \o (IF meta_first THEN meta \o flds ELSE flds \o meta)
        \o << DataMarker >> \o data

\* a run on a hand-written iCSV file, named in lower or in upper case
IcsvInit ==
    \E d \in HandDelimiters, f \in HandFields, t \in HandTypes, data \in HandData,
       meta_first \in BOOLEAN, suffix \in {".icsv", ".ICSV"} :
      /\ infile = <<Stem, suffix>>
      /\ fs = [p \in Paths |->
                  IF p = infile THEN TextFile(HandIcsv(d, f, t, data, meta_first)) ELSE Absent]
      /\ opts = [user_delimiter |-> None, nodata_override |-> None, application_profile |-> None]
      /\ env = [date_parse |-> TRUE, py311 |-> TRUE, sniff10 |-> <<",">>, sniff5 |-> <<",">>,
                today |-> Today]
      /\ pc = "main"
      /\ mk = NoMake
      /\ va = NoValidate
      /\ ret = NoReturn
      /\ col = <<>>
      /\ inferred = "none"

\* the lists handed to check_metadata: no entry, one empty entry, and up to
\* MaxEntries names
CheckLists == { <<>>, << <<>> >> } \cup { [i \in 1..k |-> <<"x">>] : k \in 1..MaxEntries }

\* a dict of one key, or of none
OptionalKey(present, key, value) == IF present THEN << <<key, value>> >> ELSE <<>>

\* header names handed to detect_geometry_hint, in lower and in mixed case
GeometryHeaderNames ==
    { <<"g", "e", "o", "m", "e", "t", "r", "y">>, <<"G", "e", "o", "m", "e", "t", "r", "y">>,
      <<"l", "a", "t">>, <<"L", "A", "T">>, <<"l", "a", "t", "i", "t", "u", "d", "e">>,
      <<"l", "o", "n">>, <<"l", "n", "g">>, <<"L", "o", "n", "g", "i", "t", "u", "d", "e">>,
      <<"x">> }

----------------------------------------------------------------------------
(* Specifications.                                                         *)

\* cli.main on a CSV or on an iCSV file
Init ==
    \/ CsvInit(PipeHeaders, PipeCells, {","}, {None}, {None})
    \/ IcsvInit

Next ==
    \/ Enrich
    \/ Accept
    \/ ParseAndCheck
    \/ GateAbort
    \/ ReadData
    \/ WriteTemp
    \/ CallValidator
    \/ WriteReport
    \/ Except
    \/ Finally

Spec == Init /\ [][Next]_vars

\* make_icsv_from_csv on a CSV file, and the header of its iCSV read back by
\* parse_icsv_metadata and check_metadata
InitEnrich ==
    CsvInit(EnrichHeaders, EnrichCells, {",", ";", "\t"},
            {None, <<";">>}, {None, <<>>, <<"x">>})

NextEnrich ==
    \/ Enrich
    \/ ParseAndCheck

SpecEnrich == InitEnrich /\ [][NextEnrich]_vars

\* infer_column_type on columns of up to MaxInferLen cells
InitInfer ==
    /\ col \in SeqsUpTo(InferCells, MaxInferLen)
    /\ env \in [date_parse : BOOLEAN, py311 : BOOLEAN, sniff10 : {<<",">>}, sniff5 : {<<",">>},
                today : {Today}]
    /\ pc = "infer"
    /\ inferred = "none"
    /\ infile = <<Stem, ".csv">>
    /\ opts = [user_delimiter |-> None, nodata_override |-> None, application_profile |-> None]
    /\ fs = [p \in Paths |-> Absent]
    /\ mk = NoMake
    /\ va = NoValidate
    /\ ret = NoReturn

NextInfer == InferColumn

SpecInfer == InitInfer /\ [][NextInfer]_vars

\* check_metadata on a metadata dict and a fields_meta dict whose 'fields'
\* key comes first or last
InitCheck ==
    /\ \E d \in {<<>>, <<"|">>, <<";">>}, f \in CheckLists \ {<<>>}, t \in CheckLists, m \in CheckLists,
          has_d \in BOOLEAN, has_f \in BOOLEAN, has_t \in BOOLEAN, has_m \in BOOLEAN,
          fields_first \in BOOLEAN :
          va = [NoValidate EXCEPT
                  !.metadata = OptionalKey(has_d, FieldDelimiterKey, d),
                  !.fields_meta =
                      OptionalKey(has_f /\ fields_first, FieldsKey, f)
                      \o OptionalKey(has_t, <<"types">>, t) \o OptionalKey(has_m, <<"min">>, m)
                      \o OptionalKey(has_f /\ ~fields_first, FieldsKey, f)]
    /\ pc = "check"
    /\ infile = <<Stem, ".icsv">>
    /\ opts = [user_delimiter |-> None, nodata_override |-> None, application_profile |-> None]
    /\ env = [date_parse |-> TRUE, py311 |-> TRUE, sniff10 |-> <<",">>, sniff5 |-> <<",">>,
              today |-> Today]
    /\ fs = [p \in Paths |-> Absent]
    /\ mk = NoMake
    /\ ret = NoReturn
    /\ col = <<>>
    /\ inferred = "none"

SpecCheck == InitCheck /\ [][CheckMetadata]_vars

\* detect_geometry_hint on headers of up to MaxHeaderLen names
InitGeometry ==
    /\ col \in SeqsUpTo(GeometryHeaderNames, MaxHeaderLen)
    /\ pc = "geometry"
    /\ inferred = <<None, None>>
    /\ infile = <<Stem, ".csv">>
    /\ opts = [user_delimiter |-> None, nodata_override |-> None, application_profile |-> None]
    /\ env = [date_parse |-> TRUE, py311 |-> TRUE, sniff10 |-> <<",">>, sniff5 |-> <<",">>,
              today |-> Today]
    /\ fs = [p \in Paths |-> Absent]
    /\ mk = NoMake
    /\ va = NoValidate
    /\ ret = NoReturn

SpecGeometry == InitGeometry /\ [][DetectGeometry]_vars

\* make_icsv_from_csv on a CSV file of five lines and up to MaxTail more, so
\* that the sample of 10 lines and the sample of 5 lines may differ
InitLong ==
    /\ \E head \in [1..5 -> { <<"a", ";", "b">>, <<"1", ";", "2">> }],
          tail \in SeqsUpTo({ <<"x">>, <<"1", ";", "2">> }, MaxTail) :
        \E lines \in {head \o tail} :
          /\ fs = [p \in Paths |-> IF p = <<Stem, ".csv">> THEN TextFile(lines) ELSE Absent]
          /\ \E s10 \in SnifferAnswers(Sample(lines, 10)), s5 \in SnifferAnswers(Sample(lines, 5)) :
                /\ Sample(lines, 10) = Sample(lines, 5) => s10 = s5
                /\ env = [date_parse |-> TRUE, py311 |-> TRUE, sniff10 |-> s10, sniff5 |-> s5,
                          today |-> Today]
    /\ \E ud \in {None, <<";">>} :
          opts = [user_delimiter |-> ud, nodata_override |-> None, application_profile |-> None]
    /\ infile = <<Stem, ".csv">>
    /\ pc = "main"
    /\ mk = NoMake
    /\ va = NoValidate
    /\ ret = NoReturn
    /\ col = <<>>
    /\ inferred = "none"

SpecLong == InitLong /\ [][Enrich]_vars

----------------------------------------------------------------------------
(* Properties.                                                             *)

\* validate_icsv has parsed and checked the header of its input
Checked == pc \notin {"main", "validate", "infer", "inferred"}

\* C1: whenever check_metadata has returned a non-empty error list, the run
\* that returns has valid = False, has created no temporary CSV and has not
\* called the external validator; the metadata report holds one "ERROR:" line
\* per error, a blank line and the remediation hint, and the data report
\* holds the abort notice.
C1_MetadataGate ==
    (pc = "done" /\ ret.kind = "return" /\ va.meta_errors # <<>>) =>
        LET errors == va.meta_errors
            report == fs[va.meta_report_path]
        IN  /\ ret.valid = FALSE
            /\ ~va.tmp_created
            /\ va.validator_calls = 0
            /\ fs[TmpName] = Absent
            /\ report.kind = "text"
            /\ Len(report.body) = Len(errors) + 2
            /\ \A i \in 1..Len(errors) : report.body[i] = <<"ERROR: ">> \o errors[i]
            /\ report.body[Len(errors) + 1] = <<>>
            /\ report.body[Len(errors) + 2] = MetadataHintLine
            /\ fs[va.out_report] = TextFile(<< AbortNotice >>)

\* a run stopped at the metadata gate whose reports are two files
C1_Witness ==
    /\ pc = "done"
    /\ ret.kind = "return"
    /\ va.meta_errors # <<>>
    /\ va.meta_report_path # va.out_report
    /\ fs[va.out_report] = TextFile(<< AbortNotice >>)

\* C2: for every header whose METADATA has no field_delimiter, or has it with
\* an empty value, whatever the FIELDS block holds, parse_icsv_metadata and
\* check_metadata raise nothing and the error list holds
\* "Missing required metadata: field_delimiter".
C2_MissingDelimiterReported ==
    (/\ Checked
     /\ \/ ~DictHas(va.metadata, FieldDelimiterKey)
        \/ DictGet(va.metadata, FieldDelimiterKey, None) = <<>>) =>
        /\ ~(ret.kind = "raise" /\ ret.exc = "ValueError")
        /\ \E i \in 1..Len(va.meta_errors) : va.meta_errors[i] = MissingDelimiterError

\* a header without field_delimiter and with a FIELDS block, checked
C2_Witness ==
    /\ Checked
    /\ ~DictHas(va.metadata, FieldDelimiterKey)
    /\ va.fields_meta # <<>>
    /\ \E i \in 1..Len(va.meta_errors) : va.meta_errors[i] = MissingDelimiterError

\* the FIELDS keys build_fields_section writes
FieldsBlockKeys ==
    { <<"fields">>, <<"types">>, <<"min">>, <<"max">>, <<"missing_count">>, <<"description">> }

\* C3: round trip: the iCSV written by make_icsv_from_csv, read back by
\* parse_icsv_metadata, gives "columns" equal to the length of the CSV's
\* header and each of the FIELDS lists fields, types, min, max, missing_count
\* and description of that length, and check_metadata finds no error.
C3_RoundTrip ==
    (mk.ran /\ Checked) =>
        /\ ret.kind # "raise"
        /\ DictGet(va.metadata, <<"columns">>, None) = StrOfNat(Len(mk.header))
        /\ \A k \in FieldsBlockKeys :
              /\ DictHas(va.fields_meta, k)
              /\ Len(DictGet(va.fields_meta, k, <<>>)) = Len(mk.header)
        /\ va.meta_errors = <<>>

\* a round trip of a CSV with two columns that recovers both
C3_Witness ==
    /\ mk.ran
    /\ Checked
    /\ Len(mk.header) = 2
    /\ ret.kind # "raise"
    /\ va.meta_errors = <<>>
    /\ Len(DictGet(va.fields_meta, <<"fields">>, <<>>)) = 2

\* the stripped cells of the column handed to infer_column_type that are not
\* missing values
C4_Pruned ==
    LET stripped == [i \in 1..Len(col) |-> Strip(col[i])]
    IN  FilterNotIn(stripped, ENRICHMENT_COMMON_MISSING)

\* C4: over the pruned values of a column that has some, infer_column_type
\* answers 'integer' when every one matches -?digits, whether or not they
\* parse as dates; else 'number' when every one matches -?digits(.digits)?;
\* else 'datetime' when every one parses as a datetime; else 'string'.
C4_TypePriority ==
    (pc = "inferred" /\ C4_Pruned # <<>>) =>
        LET p == C4_Pruned
            all_int == \A i \in 1..Len(p) : INT_RE(p[i])
            all_num == \A i \in 1..Len(p) : INT_RE(p[i]) \/ FLOAT_RE(p[i])
            all_date == \A i \in 1..Len(p) : try_parse_datetime(p[i], env)
        IN  /\ all_int => inferred = "integer"
            /\ (~all_int /\ all_num) => inferred = "number"
            /\ (~all_num /\ all_date) => inferred = "datetime"
            /\ (~all_num /\ ~all_date) => inferred = "string"

\* a column of integer-looking values that all parse as dates, inferred integer
C4_Witness ==
    /\ pc = "inferred"
    /\ C4_Pruned # <<>>
    /\ \A i \in 1..Len(C4_Pruned) :
          INT_RE(C4_Pruned[i]) /\ try_parse_datetime(C4_Pruned[i], env)
    /\ \E i \in 1..Len(col) : col[i] = <<"2", "0", "2", "0", "0", "1", "0", "1">>
    /\ inferred = "integer"

\* the columns of the CSV all of whose cells are missing
AllMissingColumns ==
    {c \in 1..Len(mk.header) :
        \A r \in 1..Len(mk.rows) :
            \/ Strip(mk.rows[r][c]) = <<>>
            \/ Strip(mk.rows[r][c]) \in ENRICHMENT_COMMON_MISSING}

\* the entries of the FIELDS line of a key, as make_icsv_from_csv wrote them
FieldsLineEntries(key) ==
    LET prefix == <<key, " ", "=", " ">>
        line == mk.fields_lines[CHOOSE i \in 1..Len(mk.fields_lines) :
                                   StartsWith(mk.fields_lines[i], prefix)]
    IN  Split(SubSeq(line, Len(prefix) + 1, Len(line)), mk.icsv_delim)

\* C5: for every column whose cells are all missing, enrichment records the
\* type 'string', empty min and max entries in the FIELDS block, no minimum,
\* maximum or required constraint in the schema, and a missing_count equal to
\* the number of data rows.
C5_AllMissingColumn ==
    mk.ran =>
        \A c \in AllMissingColumns :
            /\ mk.col_infos[c].type = "string"
            /\ mk.schema.fields[c].type = "string"
            /\ FieldsLineEntries("types")[c] = <<"string">>
            /\ FieldsLineEntries("min")[c] = <<>>
            /\ FieldsLineEntries("max")[c] = <<>>
            /\ ~\E kv \in mk.schema.fields[c].constraints :
                   kv[1] \in {"minimum", "maximum", "required"}
            /\ mk.col_infos[c].missing_count = mk.row_count
            /\ FieldsLineEntries("missing_count")[c] = StrOfNat(mk.row_count)

\* a CSV of two rows with a column of missing literals and blanks only
C5_Witness ==
    /\ mk.ran
    /\ mk.row_count = 2
    /\ \E c \in AllMissingColumns :
          /\ mk.rows[1][c] = <<"N", "A">>
          /\ mk.rows[2][c] = <<" ">>
          /\ mk.col_infos[c].missing_count = 2

\* the input delimiter make_icsv_from_csv resolves: the caller's, else the
\* one detected in the first five lines
ResolvedInputDelimiter ==
    IF opts.user_delimiter # None THEN opts.user_delimiter ELSE env.sniff5

\* the lines of the written iCSV after its DATA marker
WrittenDataLines == AfterData(fs[<<Stem, ".icsv">>].body)

\* C6: when the resolved input delimiter is ',', the iCSV declares
\* field_delimiter = '|' and joins the FIELDS lists and the DATA rows with
\* '|'; for any other resolved delimiter it declares and uses that one.
C6_OutputDelimiter ==
    mk.ran =>
        LET out == IF ResolvedInputDelimiter = <<",">> THEN <<"|">>
                   ELSE ResolvedInputDelimiter
            n == Len(mk.header)
        IN  /\ <<"#", " ", "field_delimiter", " ", "=", " ">> \o out
                  \in Range(fs[<<Stem, ".icsv">>].body)
            /\ Cardinality({i \in 1..Len(mk.metadata_lines) :
                   StartsWith(mk.metadata_lines[i], <<"field_delimiter">>)}) = 1
            /\ <<"#", " ", "fields", " ", "=", " ">> \o Join(mk.header, out)
                  \in Range(fs[<<Stem, ".icsv">>].body)
            /\ <<"#", " ", "types", " ", "=", " ">>
                  \o Join([i \in 1..n |-> <<mk.col_infos[i].type>>], out)
                  \in Range(fs[<<Stem, ".icsv">>].body)
            /\ <<"#", " ", "missing_count", " ", "=", " ">>
                  \o Join([i \in 1..n |-> StrOfNat(mk.col_infos[i].missing_count)], out)
                  \in Range(fs[<<Stem, ".icsv">>].body)
            /\ Len(WrittenDataLines) = 1 + Len(mk.rows)
            /\ CsvReadRow(WrittenDataLines[1], out[1]) = mk.header
            /\ \A r \in 1..Len(mk.rows) :
                  CsvReadRow(WrittenDataLines[r + 1], out[1]) = mk.rows[r]

\* a comma-separated CSV of two columns written with '|'
C6_Witness ==
    /\ mk.ran
    /\ ResolvedInputDelimiter = <<",">>
    /\ Len(mk.header) = 2
    /\ Len(mk.rows) >= 1
    /\ <<"#", " ", "field_delimiter", " ", "=", " ", "|">> \in Range(fs[<<Stem, ".icsv">>].body)

\* the columns of the CSV that hold an integer-looking value and a value
\* that is neither numeric nor missing
MixedColumns ==
    {c \in 1..Len(mk.header) :
        /\ \E r \in 1..Len(mk.rows) : INT_RE(Strip(mk.rows[r][c]))
        /\ \E r \in 1..Len(mk.rows) :
              LET v == Strip(mk.rows[r][c])
              IN  /\ ~INT_RE(v)
                  /\ ~FLOAT_RE(v)
                  /\ v \notin ENRICHMENT_COMMON_MISSING}

\* C7: build-then-validate on a CSV with a column of integer-looking values
\* and at least one non-numeric, non-missing token: validate_icsv, when it
\* returns, has written the data report and returns valid = False.
C7_MixedColumnInvalid ==
    (pc = "done" /\ mk.ran /\ MixedColumns # {} /\ ret.kind = "return") =>
        /\ ret.valid = FALSE
        /\ fs[va.out_report].kind = "text"

\* C8: in every run of validate_icsv that has created the temporary CSV, the
\* file is gone once validate_icsv has returned or let an exception through.
C8_TempFileRemoved ==
    (pc = "done" /\ va.tmp_created) => fs[TmpName] = Absent

\* a run that created the temporary CSV, returned, and left none behind
C8_Witness ==
    /\ pc = "done"
    /\ va.tmp_created
    /\ ret.kind = "return"
    /\ fs[TmpName] = Absent

\* C9: when the metadata gate is passed and the external validator raises,
\* validate_icsv does not let that error through: the run that returns has
\* written the error's text into the data report and returns valid = False.
C9_ValidatorErrorHandled ==
    (pc = "done" /\ va.validator_raised) =>
        /\ va.meta_errors = <<>>
        /\ ~(ret.kind = "raise" /\ ret.exc = "ValidatorError")
        /\ ret.kind = "return" =>
              /\ ret.valid = FALSE
              /\ ret.path = va.out_report
              /\ fs[va.out_report] = TextFile(<< <<"Validation failed: ", "ValidatorError">> >>)

\* a run whose validator raised and that returned
C9_Witness ==
    /\ pc = "done"
    /\ va.validator_raised
    /\ ret.kind = "return"
    /\ ret.valid = FALSE

\* the cells of the data rows as read, row by row
RawCells == Flatten(mk.raw_rows)

\* occurrences of a literal among the cells, and its first position
Occurrences(x) == Cardinality({i \in 1..Len(RawCells) : RawCells[i] = x})

FirstSeen(x) == CHOOSE i \in 1..Len(RawCells) :
                    RawCells[i] = x /\ \A j \in 1..(i - 1) : RawCells[j] # x

\* C10: the nodata token is the override when one is given; otherwise the
\* literal of the missing-value set that occurs most often among all cells
\* of all data rows, the first met in the row-major scan among those of
\* equal highest count; and the empty string when no cell is such a literal.
C10_NodataResolution ==
    mk.ran =>
        LET seen == {x \in ENRICHMENT_COMMON_MISSING : Occurrences(x) > 0}
        IN  IF opts.nodata_override # None
            THEN mk.nodata_value = opts.nodata_override
            ELSE IF seen = {}
            THEN mk.nodata_value = <<>>
            ELSE /\ mk.nodata_value \in seen
                 /\ \A y \in seen \ {mk.nodata_value} :
                       \/ Occurrences(y) < Occurrences(mk.nodata_value)
                       \/ /\ Occurrences(y) = Occurrences(mk.nodata_value)
                          /\ FirstSeen(mk.nodata_value) < FirstSeen(y)

\* no override, two literals met equally often: the first met is the token
C10_Witness ==
    /\ mk.ran
    /\ opts.nodata_override = None
    /\ Occurrences(<<"N", "A">>) = 1
    /\ Occurrences(<<>>) = 1
    /\ FirstSeen(<<"N", "A">>) < FirstSeen(<<>>)
    /\ mk.nodata_value = <<"N", "A">>

\* C11: the METADATA block built by enrichment has a "nodata = <token>" line
\* if and only if the resolved nodata token is not empty; with no missing
\* literal among the cells and no override there is no nodata line.
C11_NodataLineIffNonEmpty ==
    mk.ran =>
        LET NodataLines == {i \in 1..Len(mk.metadata_lines) : mk.metadata_lines[i][1] = "nodata"}
        IN  /\ (NodataLines # {}) <=> (mk.nodata_value # <<>>)
            /\ \A i \in NodataLines : mk.metadata_lines[i] = KV("nodata", mk.nodata_value)

\* a token that is not empty is written on one nodata line
C11_Witness ==
    /\ mk.ran
    /\ mk.nodata_value = <<"N", "A">>
    /\ \E i \in 1..Len(mk.metadata_lines) :
          /\ mk.metadata_lines[i] = KV("nodata", <<"N", "A">>)
          /\ \A j \in 1..Len(mk.metadata_lines) : mk.metadata_lines[j][1] = "nodata" => j = i

\* C12: with a non-empty field_delimiter and a 'fields' list, check_metadata
\* reports exactly one 'Inconsistent count' error, with the expected and the
\* found length, for each other FIELDS key whose list is not empty and
\* differs in length from 'fields', none for a key whose list is empty or of
\* equal length, and nothing else.
C12_InconsistentCounts ==
    (/\ pc = "checked"
     /\ DictGet(va.metadata, FieldDelimiterKey, <<>>) # <<>>
     /\ DictHas(va.fields_meta, FieldsKey))
    => LET ListOf(key) == DictGet(va.fields_meta, key, <<>>)
           OtherKeys == {va.fields_meta[i][1] : i \in 1..Len(va.fields_meta)} \ {FieldsKey}
           CountErrorsOn(key) ==
               {i \in 1..Len(va.meta_errors) :
                   /\ va.meta_errors[i][1] = "Inconsistent count in '"
                   /\ SubSeq(va.meta_errors[i], 2, 1 + Len(key)) = key}
           num == Len(ListOf(FieldsKey))
           wrong == {k \in OtherKeys : ListOf(k) # <<>> /\ Len(ListOf(k)) # num}
       IN  /\ \A k \in wrong :
                 /\ Cardinality(CountErrorsOn(k)) = 1
                 /\ \A i \in CountErrorsOn(k) :
                       va.meta_errors[i] = InconsistentCountError(k, num, Len(ListOf(k)))
           /\ \A k \in OtherKeys \ wrong : CountErrorsOn(k) = {}
           /\ Len(va.meta_errors) = Cardinality(wrong)

\* 'types' has fewer entries than 'fields', 'min' has as many: one error
C12_Witness ==
    /\ pc = "checked"
    /\ DictGet(va.metadata, FieldDelimiterKey, <<>>) = <<"|">>
    /\ Len(DictGet(va.fields_meta, FieldsKey, <<>>)) = 2
    /\ Len(DictGet(va.fields_meta, <<"types">>, <<>>)) = 1
    /\ Len(DictGet(va.fields_meta, <<"min">>, <<>>)) = 2
    /\ va.meta_errors = << InconsistentCountError(<<"types">>, 2, 1) >>

\* C13: header names are compared in lower case. A column named 'geometry'
\* gives the hint 'column:<its name as written>' and no SRID, whatever lat
\* and lon columns there are (the first such column when there are several);
\* otherwise a column in {lat, latitude} together with a column in
\* {lon, lng, longitude} gives 'column:<lat>,<lon>' and 'EPSG:4326', each
\* the last column of its kind; otherwise there is no hint and no SRID.
C13_GeometryHint ==
    pc = "hinted" =>
        LET Named(S) == {i \in 1..Len(col) : Lower(col[i]) \in S}
            geo == Named({GeometryName})
            lat == Named(LatNames)
            lon == Named(LonNames)
            Least(I) == CHOOSE i \in I : \A j \in I : i <= j
            Greatest(I) == CHOOSE i \in I : \A j \in I : j <= i
        IN  IF geo # {}
            THEN inferred = <<ColumnPrefix \o col[Least(geo)], None>>
            ELSE IF lat # {} /\ lon # {}
            THEN inferred = <<ColumnPrefix \o col[Greatest(lat)] \o <<",">> \o col[Greatest(lon)],
                              Epsg4326>>
            ELSE inferred = <<None, None>>

\* two lat columns and a lon column, no geometry column: the last lat column
\* is the one named in the hint
C13_Witness ==
    /\ pc = "hinted"
    /\ col = << <<"l", "a", "t">>, <<"L", "A", "T">>, <<"l", "n", "g">> >>
    /\ inferred = << <<"c", "o", "l", "u", "m", "n", ":", "L", "A", "T", ",", "l", "n", "g">>,
                     Epsg4326 >>

\* C14: for a header that declares a field_delimiter of one character, in a
\* METADATA block before or after the FIELDS block, parse_icsv_metadata
\* returns, for every FIELDS line, a list of (occurrences of the declared
\* delimiter in the raw value) + 1 entries, none of which contains the
\* delimiter, whether or not the raw value contains '|'.
C14_TwoPassResplit ==
    \A d \in HandDelimiters \ {None}, f \in HandFields, t \in HandTypes, data \in HandData,
       meta_first \in BOOLEAN :
        (/\ pc \notin {"main", "validate"}
         /\ Len(d) = 1
         /\ fs[infile].body = HandIcsv(d, f, t, data, meta_first))
        => LET Resplit(key, raw) ==
                   raw # None =>
                       LET parsed == DictGet(va.fields_meta, key, <<>>)
                       IN  /\ DictHas(va.fields_meta, key)
                           /\ Len(parsed) = Count(raw, d[1]) + 1
                           /\ \A i \in 1..Len(parsed) : ~Contains(parsed[i], d)
           IN  /\ ret # Raise("ValueError")
               /\ Resplit(FieldsKey, f)
               /\ Resplit(<<"types">>, t)

\* the FIELDS block comes first, the delimiter is ';' and the fields line
\* holds a '|': the list read on the first pass is joined again
C14_Witness ==
    /\ pc \notin {"main", "validate"}
    /\ \E t \in HandTypes, data \in HandData :
          fs[infile].body = HandIcsv(<<";">>, <<"a", "|", "b">>, t, data, FALSE)
    /\ va.fields_meta[1] = <<FieldsKey, << <<"a", "|", "b">> >> >>

\* C15: validate_icsv never modifies its input file. For every input path
\* that cli.main accepts as an iCSV (the suffix compared in lower case, so
\* 'data.ICSV' too), the metadata report path and the data report path
\* differ from the input path, and no step of the run changes the content
\* of the input file.
C15_InputUnmodified ==
    [][pc # "main" =>
          /\ fs'[va.infile] = fs[va.infile]
          /\ va'.meta_report_path # va.infile
          /\ va'.out_report # va.infile]_vars

\* a run on 'data.icsv' that returns: both reports are written next to the
\* input, which still starts with its first line
C15_Witness ==
    /\ pc = "done"
    /\ ret.kind = "return"
    /\ infile = <<Stem, ".icsv">>
    /\ va.meta_report_path = <<Stem, "_metadata_report.txt">>
    /\ va.out_report = <<Stem, "_data_report.txt">>
    /\ fs[va.meta_report_path].kind = "text"
    /\ fs[va.out_report].kind = "text"
    /\ fs[infile].body # <<>>
    /\ fs[infile].body[1] = <<"#", " ", "iCSV 1.0 UTF-8">>

\* C16: with no forced delimiter, the delimiter with which make_icsv_from_csv
\* reads the header and the rows (detected in the first 10 lines) is the
\* delimiter from which the output field_delimiter is derived (detected in
\* the first 5 lines).
C16_OneDetectedDelimiter ==
    (mk.ran /\ opts.user_delimiter = None) =>
        /\ mk.read_delim = mk.detected_delim
        /\ mk.icsv_delim = icsv_delimiter(mk.read_delim)

\* a file of more than five lines on which both detections answer ';'
C16_Witness ==
    /\ mk.ran
    /\ opts.user_delimiter = None
    /\ Len(fs[infile].body) > 5
    /\ mk.read_delim = <<";">>
    /\ mk.detected_delim = <<";">>
    /\ mk.header = << <<"a">>, <<"b">> >>

====
